---- MODULE Spec2Model ----
(***************************************************************************)
(* Model of src/prime.c (pico_prime): main()'s poll loop and primer(), the *)
(* trial-division generator of the first PRIMECOUNT primes.                *)
(*                                                                         *)
(* Floats (this_run, total_runs) are modelled as exact numbers; the        *)
(* running average total_runs / passcount is kept as that pair.  The time  *)
(* primer() measures is an input drawn from ElapsedTimes.                  *)
(***************************************************************************)
EXTENDS Integers, Sequences, FiniteSets, TLC

\* ---- bounds of the model ------------------------------------------------
\* largest PRIMECOUNT a modelled build is compiled with
MaxCap == 10
\* most trials (calls of primer) in one run of main
MaxPass == 3

\* PRIMECOUNT values of the modelled builds (prime.c:18 sets 60000)
Capacities == 3 .. MaxCap
\* values primer() can return as elapsed seconds
ElapsedTimes == {1, 3}

\* what a read of a never-written uint32_t slot can yield
UninitValues == {1, 2147483647}

\* marker of a buffer slot not yet stored in the current call
Unset == 0 - 1

VARIABLES
    PRIMECOUNT,   \* the #define the build was compiled with
    mpc,          \* main: "poll", "first", "later", "sleep", "crashed"
    passcount, this_run, total_runs,
    out,          \* lines printed so far
    pc,           \* primer: "idle","entry","outer","advance","scan","store","exit","returned"
    firstpass, primes, index, candidate, searchto, count, remainder, isprime,
    lr,           \* primer's return linkage: "main" or "clobbered"
    oob,          \* indices outside primes[] that were stored to
    lastPoll,     \* what the previous poll of the button read
    edges,        \* not-pressed -> pressed transitions seen by the polls
    calls,        \* calls of primer so far
    elapsedLog    \* the values primer returned, in order

mainVars == <<mpc, passcount, this_run, total_runs, out>>
primerVars == <<pc, firstpass, primes, index, candidate, searchto, count,
                remainder, isprime, lr, oob>>
ghostVars == <<lastPoll, edges, calls, elapsedLog>>
vars == <<PRIMECOUNT, mainVars, primerVars, ghostVars>>

\* ---- pure helpers -------------------------------------------------------
\* independent primality test
IsPrime(n) == n > 1 /\ \A d \in 2 .. (n - 1) : n % d # 0

\* an output line
Line(kind, a, b, c) == [kind |-> kind, a |-> a, b |-> b, c |-> c]

\* candidate += 2, prime.c:144.  candidate is a uint32_t; the largest value
\* a run reaches is a prime near the PRIMECOUNT-th one (below 10^6 for
\* PRIMECOUNT = 60000), so the addition never wraps.
\* (faulty variant, stepping by one: C1 must reject it)
NextCandidate_skip1(c) == c + 1
NextCandidate(c) == c + 2

\* searchto = trunc(sqrt(candidate)), prime.c:147: the integer square root
\* (sqrt on double is exact enough for every 32-bit argument)
\* (faulty variant, no square root taken: C10 must reject it)
SearchTo_whole(c) == c
SearchTo(c) == CHOOSE r \in 0 .. c : r * r <= c /\ (r + 1) * (r + 1) > c

\* first divisor index of the scan, for(count = 1; ...), prime.c:151
\* (faulty variant, divisor 3 skipped: C3 must reject it)
ScanStart_two == 1 + 1
ScanStart == 1

\* the outer loop's condition, while (index < PRIMECOUNT), prime.c:142
LoopCond(i, cap) == i < cap

\* primes[i] as the scan reads it: the stored value, or whatever an
\* unwritten or out-of-range slot holds
ReadValues(i) ==
    IF i \in DOMAIN primes /\ primes[i] # Unset THEN {primes[i]} ELSE UninitValues

\* The objects a store one past the end of primes[] can land on.  The store
\* is undefined behaviour; which object lies at &primes[PRIMECOUNT] depends
\* on the stack layout of the build.  "none" is padding or a dead slot (also
\* candidate, which already holds the stored value, and start, whose effect
\* on the returned time is covered by ElapsedTimes); index and firstpass are
\* primer's live locals; passcount and total_runs are main's values saved
\* in primer's frame; lr is the saved return address.
Victims == {"none", "index", "firstpass", "passcount", "total_runs", "lr"}

\* state after primes[i] = v with i outside the buffer, when the word at
\* &primes[i] is the object `victim` (idx is the value index holds then)
AfterOobStore(victim, idx, v) ==
    [index      |-> IF victim = "index" THEN v ELSE idx,
     firstpass  |-> IF victim = "firstpass" THEN (v % 256 # 0) ELSE firstpass,
     passcount  |-> IF victim = "passcount" THEN v ELSE passcount,
     total_runs |-> IF victim = "total_runs" THEN v ELSE total_runs,
     lr         |-> IF victim = "lr" THEN "clobbered" ELSE lr]

\* ---- initial state: main() entered, passcount = 0 (prime.c:86-88) --------
Init ==
    /\ PRIMECOUNT \in Capacities
    /\ mpc = "poll"
    /\ passcount = 0
    /\ this_run = 0
    /\ total_runs = 0
    /\ out = <<>>
    /\ pc = "idle"
    /\ firstpass = FALSE
    /\ primes = [i \in 0 .. (PRIMECOUNT - 1) |-> Unset]
    /\ index = 0
    /\ candidate = 0
    /\ searchto = 0
    /\ count = 0
    /\ remainder = 0
    /\ isprime = FALSE
    /\ lr = "main"
    /\ oob = {}
    /\ lastPoll = FALSE
    /\ edges = 0
    /\ calls = 0
    /\ elapsedLog = <<>>

\* ---- main() -------------------------------------------------------------
\* one poll of get_bootsel_button() that reads pressed: prime.c:93-98,103
PollPressed ==
    /\ mpc = "poll"
    /\ calls < MaxPass
    /\ LET p == passcount + 1 IN
         /\ passcount' = p
         /\ mpc' = IF p = 1 THEN "first" ELSE "later"
         /\ out' = IF p = 1 THEN Append(out, Line("FreeHeap", 0, 0, 0)) ELSE out
         /\ firstpass' = (p = 1)
    /\ pc' = "entry"
    /\ lr' = "main"
    /\ calls' = calls + 1
    /\ edges' = IF lastPoll THEN edges ELSE edges + 1
    /\ lastPoll' = TRUE
    /\ UNCHANGED <<PRIMECOUNT, this_run, total_runs, primes, index, candidate,
                   searchto, count, remainder, isprime, oob, elapsedLog>>

\* one poll that reads not pressed: prime.c:93
PollReleased ==
    /\ mpc = "poll"
    /\ mpc' = "sleep"
    /\ lastPoll' = FALSE
    /\ UNCHANGED <<PRIMECOUNT, passcount, this_run, total_runs, out, primerVars,
                   edges, calls, elapsedLog>>

\* primer(true) has returned: prime.c:98-101
ReportFirst ==
    /\ mpc = "first"
    /\ pc = "returned"
    /\ total_runs' = this_run
    /\ out' = Append(out, Line("Runtime", this_run, 0, 0))
    /\ mpc' = "sleep"
    /\ pc' = "idle"
    /\ UNCHANGED <<PRIMECOUNT, passcount, this_run, firstpass, primes, index,
                   candidate, searchto, count, remainder, isprime, lr, oob,
                   ghostVars>>

\* primer(false) has returned: prime.c:103-106
ReportLater ==
    /\ mpc = "later"
    /\ pc = "returned"
    /\ total_runs' = total_runs + this_run
    /\ out' = Append(out, Line("RuntimePassAverage", this_run, passcount,
                               <<total_runs + this_run, passcount>>))
    /\ mpc' = "sleep"
    /\ pc' = "idle"
    /\ UNCHANGED <<PRIMECOUNT, passcount, this_run, firstpass, primes, index,
                   candidate, searchto, count, remainder, isprime, lr, oob,
                   ghostVars>>

\* sleep_ms(100): prime.c:110
Sleep ==
    /\ mpc = "sleep"
    /\ mpc' = "poll"
    /\ UNCHANGED <<PRIMECOUNT, passcount, this_run, total_runs, out, primerVars,
                   ghostVars>>

\* ---- primer() -----------------------------------------------------------
\* prime.c:120-139: a fresh buffer, the four seeds, index = 3,
\* candidate = primes[index].  With PRIMECOUNT = 3 the store primes[3] = 7
\* and the read primes[index] are outside the buffer.
PrimerEntry ==
    /\ pc = "entry"
    /\ LET seeds == <<2, 3, 5, 7>>
           fresh == [i \in 0 .. (PRIMECOUNT - 1) |->
                        IF i <= 3 THEN seeds[i + 1] ELSE Unset]
       IN  /\ primes' = fresh
           /\ index' = 3
           /\ IF 3 \in DOMAIN fresh
                THEN /\ candidate' = 7
                     /\ oob' = {}
                     /\ UNCHANGED <<firstpass, passcount, total_runs, lr>>
                ELSE /\ oob' = {3}
                     /\ candidate' \in ({7} \cup UninitValues)
                     /\ \E victim \in Victims \ {"index"} :
                          LET s == AfterOobStore(victim, 3, 7) IN
                            /\ firstpass' = s.firstpass
                            /\ passcount' = s.passcount
                            /\ total_runs' = s.total_runs
                            /\ lr' = s.lr
    /\ pc' = "outer"
    /\ UNCHANGED <<PRIMECOUNT, mpc, this_run, out, searchto, count, remainder,
                   isprime, ghostVars>>

\* prime.c:142: the outer loop's test
OuterTest ==
    /\ pc = "outer"
    /\ pc' = IF LoopCond(index, PRIMECOUNT) THEN "advance" ELSE "exit"
    /\ UNCHANGED <<PRIMECOUNT, mainVars, firstpass, primes, index, candidate,
                   searchto, count, remainder, isprime, lr, oob, ghostVars>>

\* prime.c:144-151: next candidate, its search limit, the scan's start
Advance ==
    /\ pc = "advance"
    /\ candidate' = NextCandidate(candidate)
    /\ searchto' = SearchTo(NextCandidate(candidate))
    /\ isprime' = TRUE
    /\ count' = ScanStart
    /\ pc' = "scan"
    /\ UNCHANGED <<PRIMECOUNT, mainVars, firstpass, primes, index, remainder,
                   lr, oob, ghostVars>>

\* prime.c:151-160: one evaluation of the scan's condition and, when it
\* holds, one pass through its body
ScanStep ==
    /\ pc = "scan"
    /\ \E p \in ReadValues(count) :
         IF p <= searchto
           THEN /\ remainder' = candidate % p
                /\ IF candidate % p = 0
                     THEN isprime' = FALSE /\ count' = count /\ pc' = "store"
                     ELSE isprime' = isprime /\ count' = count + 1 /\ pc' = "scan"
           ELSE /\ pc' = "store"
                /\ UNCHANGED <<remainder, isprime, count>>
    /\ UNCHANGED <<PRIMECOUNT, mainVars, firstpass, primes, index, candidate,
                   searchto, lr, oob, ghostVars>>

\* prime.c:161-165: if (isprime) { index++; primes[index] = candidate; }
Store ==
    /\ pc = "store"
    /\ pc' = "outer"
    /\ IF ~isprime
         THEN UNCHANGED <<primes, index, oob, firstpass, passcount, total_runs, lr>>
         ELSE LET i == index + 1 IN
                IF i \in DOMAIN primes
                  THEN /\ primes' = [primes EXCEPT ![i] = candidate]
                       /\ index' = i
                       /\ UNCHANGED <<oob, firstpass, passcount, total_runs, lr>>
                  ELSE /\ primes' = primes
                       /\ oob' = oob \cup {i}
                       /\ \E victim \in Victims :
                            LET s == AfterOobStore(victim, i, candidate) IN
                              /\ index' = s.index
                              /\ firstpass' = s.firstpass
                              /\ passcount' = s.passcount
                              /\ total_runs' = s.total_runs
                              /\ lr' = s.lr
    /\ UNCHANGED <<PRIMECOUNT, mpc, this_run, out, candidate, searchto, count,
                   remainder, isprime, ghostVars>>

\* prime.c:168-175: print the last prime on the first pass, return the
\* elapsed time; a clobbered return linkage ends the run of main
PrimerExit ==
    /\ pc = "exit"
    /\ out' = IF firstpass THEN Append(out, Line("LastPrime", candidate, 0, 0))
                           ELSE out
    /\ \E e \in ElapsedTimes :
         IF lr = "main"
           THEN /\ this_run' = e
                /\ elapsedLog' = Append(elapsedLog, e)
                /\ pc' = "returned"
                /\ mpc' = mpc
           ELSE /\ mpc' = "crashed"
                /\ pc' = "idle"
                /\ UNCHANGED <<this_run, elapsedLog>>
    /\ UNCHANGED <<PRIMECOUNT, passcount, total_runs, firstpass, primes, index,
                   candidate, searchto, count, remainder, isprime, lr, oob,
                   lastPoll, edges, calls>>

Next ==
    \/ PollPressed
    \/ PollReleased
    \/ ReportFirst
    \/ ReportLater
    \/ Sleep
    \/ PrimerEntry
    \/ OuterTest
    \/ Advance
    \/ ScanStep
    \/ Store
    \/ PrimerExit

Spec == Init /\ [][Next]_vars

\* ---- properties ---------------------------------------------------------
RECURSIVE SumSeq(_)
SumSeq(s) == IF s = <<>> THEN 0 ELSE Head(s) + SumSeq(Tail(s))

\* primes[0..k] are exactly the first k+1 primes: all written, each one a
\* prime, strictly increasing from 2, and no prime up to primes[k] left out
PrefixIsFirstPrimes(k) ==
    /\ 0 .. k \subseteq DOMAIN primes
    /\ primes[0] = 2
    /\ \A i \in 0 .. k : IsPrime(primes[i])
    /\ \A i \in 1 .. k : primes[i - 1] < primes[i]
    /\ \A n \in 2 .. primes[k] : IsPrime(n) => \E i \in 0 .. k : primes[i] = n

\* primer's outer loop has exited (before or after the return)
Finished == pc \in {"exit", "returned"}

\* C1: for PRIMECOUNT > 3, when primer's loop has finished, positions
\* 0..PRIMECOUNT-1 of the buffer hold exactly the first PRIMECOUNT primes in
\* ascending order, the first four being 2, 3, 5, 7.
C1_FirstPrimes ==
    (Finished /\ PRIMECOUNT > 3) =>
        /\ DOMAIN primes = 0 .. (PRIMECOUNT - 1)
        /\ PrefixIsFirstPrimes(PRIMECOUNT - 1)
        /\ <<primes[0], primes[1], primes[2], primes[3]>> = <<2, 3, 5, 7>>

\* C1 witness: the build with PRIMECOUNT = 10 has finished with the
\* scenario's buffer
C1_Witness ==
    /\ pc = "exit"
    /\ PRIMECOUNT = 10
    /\ primes = [i \in 0 .. 9 |-> <<2, 3, 5, 7, 11, 13, 17, 19, 23, 29>>[i + 1]]

\* C2: with PRIMECOUNT > 3, index never exceeds PRIMECOUNT-1 and no store
\* lands outside the PRIMECOUNT-entry buffer.
C2_IndexWithinBuffer ==
    PRIMECOUNT > 3 => (index <= PRIMECOUNT - 1 /\ oob = {})

\* the head of an outer-loop iteration: the loop test is about to pass, or
\* has passed and the body has not started
IterationHead ==
    \/ pc = "outer" /\ index < PRIMECOUNT
    \/ pc = "advance"

\* C3: at the head of each outer-loop iteration, with k = index,
\* primes[0..k] is exactly the first k+1 primes (strictly increasing, no
\* duplicates, none missing) and every prime below candidate is stored; the
\* prefix property also holds throughout the iteration's body.
C3_PrefixInvariant ==
    /\ IterationHead =>
          /\ PrefixIsFirstPrimes(index)
          /\ \A n \in 2 .. (candidate - 1) :
                IsPrime(n) => \E i \in 0 .. index : primes[i] = n
    /\ pc \in {"scan", "store"} => PrefixIsFirstPrimes(index)

\* C3 witness: an iteration head reached after a composite candidate (15)
\* was rejected, six primes stored
C3_Witness ==
    /\ pc = "outer"
    /\ index = 5
    /\ index < PRIMECOUNT
    /\ candidate = 15

\* C4: with PRIMECOUNT = 4 the outer loop body never runs: candidate stays
\* 7, no divisor scan is run, nothing is stored beyond index 3.
C4_NoSearchAtFour ==
    PRIMECOUNT = 4 =>
        /\ pc \notin {"advance", "scan", "store"}
        /\ candidate <= 7
        /\ index <= 3
        /\ oob = {}

\* C5: with PRIMECOUNT <= 3 the generation fails before any slot is
\* written, and the trial produces no report.
C5_CapacityError ==
    PRIMECOUNT <= 3 =>
        /\ \A i \in DOMAIN primes : primes[i] = Unset
        /\ oob = {}
        /\ \A k \in 1 .. Len(out) : out[k].kind = "FreeHeap"

C7_OneTrialPerEdge == PRIMECOUNT > 3 => calls = edges

\* C8: at loop exit (PRIMECOUNT > 3) candidate, the value printed as
\* "Last Prime", equals the final buffer entry primes[PRIMECOUNT-1].
C8_LastPrimeIsFinalEntry ==
    (pc = "exit" /\ PRIMECOUNT > 3) => candidate = primes[PRIMECOUNT - 1]

ScanWithinFilled ==
    /\ pc \in {"scan", "store"} =>
          /\ 1 <= count
          /\ count <= index
          /\ count \in DOMAIN primes
          /\ primes[count] # Unset
    /\ pc = "store" =>
          /\ \A j \in 1 .. (count - 1) :
                primes[j] <= searchto /\ candidate % primes[j] # 0
          /\ IF isprime
               THEN primes[count] > searchto
               ELSE primes[count] <= searchto /\ candidate % primes[count] = 0

\* step part of C10: a scan step either ends the scan or moves to the next slot
ScanProgress ==
    pc = "scan" => (pc' = "store" /\ count' = count) \/
                   (pc' = "scan" /\ count' = count + 1)

\* C10: every read of primes[count] in the divisor scan has
\* 1 <= count <= index on a filled slot, and the scan ends on the first stored
\* prime above searchto or at the first stored prime dividing candidate.
C10_ScanBounded == []ScanWithinFilled /\ [][ScanProgress]_vars

\* C10 witness: the scan of candidate 25 has ended at primes[2] = 5, which
\* divides it
C10_Witness ==
    /\ pc = "store"
    /\ candidate = 25
    /\ count = 2
    /\ ~isprime

====
